---- MODULE Spec2Model ----
(***************************************************************************)
(* The scoped value-reference table of v8go's V8GoContext (src/context.cc, *)
(* src/v8go.hh): a vector of retained engine values, a stack of saved      *)
(* scope checkpoints, the current scope id and the latest scope id.        *)
(*                                                                         *)
(* The table state is the four fields of V8GoContext.  The variable `last` *)
(* is the call record of the most recent C API call (operation, argument,  *)
(* returned value).  The remaining variables are history variables: they   *)
(* never influence the table and only remember what the host has seen      *)
(* (which scopes it opened, which references it was handed, which scope    *)
(* ids it popped), so that properties about "references returned earlier"  *)
(* can be stated.                                                          *)
(*                                                                         *)
(* Further specifications over the same module: SpecWrap (the scope        *)
(* counter wraps around), SpecBoth (the older m_ctx table of src/v8go.cc   *)
(* given the same calls as V8GoContext), SpecHost (isolates and Contexts   *)
(* as heap objects: creation, destruction, callbacks) and SpecLock         *)
(* (threads entering the C API under the isolates' Lockers).  Each         *)
(* specification leaves the variables of the others at their initial       *)
(* values.                                                                 *)
(***************************************************************************)
EXTENDS Integers, Sequences, FiniteSets, TLC

(***************************************************************************)
(* Bounds of the model.                                                    *)
(***************************************************************************)
\* ValueScope is uint32_t (src/v8go.h:44); the model keeps the wraparound of
\* ++_latestScope with a narrower counter of ScopeBits bits.
ScopeBits == 2
\* The largest scope id handed out in the specification without overflow
\* (Spec); always below 2^ScopeBits, so the counter does not wrap there.
MaxScope == 3
\* std::vector<PersistentValue> is unbounded; the model stops appending here.
MaxValues == 2
\* std::vector<ValueRef> _savedScopes is unbounded; the model stops nesting here.
MaxDepth == 2

\* Isolate::New is unbounded; the model creates at most this many isolates.
MaxIsolates == 2
\* new V8GoContext is unbounded; the model allocates at most this many.
MaxContexts == 4
\* int ref of NewContext: the host identifiers are 1 .. MaxRef.
MaxRef == 2
\* info.Length() of a callback is at most this.
MaxArgs == 1
\* The callbacks of SpecHost stop appending at this table size.
MaxSlots == 2
\* Number of host threads in SpecLock.
MaxThreads == 2
MaxScripts == 2

RECURSIVE Pow2(_)
Pow2(n) == IF n = 0 THEN 1 ELSE 2 * Pow2(n - 1)

ScopeModulus == Pow2(ScopeBits)

\* ValueScope _latestScope = 1, _curScope = 1
RootScope == 1

\* v8::Undefined(iso): an engine value like any other, and the value getValue
\* returns for an obsolete reference.
Undefined == "undefined"

\* Engine values the host can hand to addValue.
Values == {Undefined, "A"}

\* A default-constructed (empty) Persistent, as vector::resize would create.
EmptyHandle == "empty"

ScopeIds == 0 .. (ScopeModulus - 1)

\* Every ValueRef the host can pass: any scope, any index up to one past the
\* largest table the model builds.
AllRefs == [scope : ScopeIds, index : 0 .. (MaxValues + 1)]

VARIABLES
  values,       \* _values: the retained engine values, index 0 first
  savedScopes,  \* _savedScopes: checkpoints [scope, index], bottom first
  curScope,     \* _curScope
  latestScope,  \* _latestScope
  last,         \* the most recent call: [op, arg, ret]
  frames,       \* history: the scopes the host has open, outermost first
  issued,       \* history: references handed out whose scope is still open
  popped,       \* history: scope ids for which popValueScope returned true
  pushedIds     \* history: scope ids returned by pushValueScope

\* The older table design of src/v8go.cc (struct m_ctx), run side by side with
\* V8GoContext in SpecBoth.
VARIABLES
  m_values,      \* m_ctx::_values: slots [ref, val], each tagged with its ValueRef
  m_savedscopes, \* m_ctx::_savedscopes: pairs <<scope, size>>, bottom first
  m_curScope,    \* m_ctx::_curScope
  m_latestScope, \* m_ctx::_latestScope
  m_last,        \* the most recent m_ctx call: [op, arg, ret]
  aborted        \* Panic() has called abort(): the process is gone

\* Isolates and Contexts as heap objects (SpecHost).
VARIABLES
  isolates,      \* per Isolate*: [state, data], data = iso->GetData(0)
  contexts,      \* per V8GoContext*: [state, kind, iso, goRef, size]
  embedderData,  \* per v8::Context (numbered as its V8GoContext): [slot1, slot2]
  reported,      \* the goFunctionCallback calls made by the last callback
  fault          \* outcome of undefined behaviour: "none", "crash", "corrupt"

\* Threads and the isolates' Lockers (SpecLock).
VARIABLES
  lockOwner,     \* per isolate: the thread holding its v8::Locker, or NoThread
  thread         \* per thread: the entry point it is in and how far it got

\* The tables of two Contexts of one isolate (SpecTwo).
VARIABLES
  tables         \* per V8GoContext*: [values, savedScopes, curScope, latestScope]

\* A script being run by RunScript (SpecRun).
VARIABLES
  running        \* empty, or the one record [entry, reentered] of the script
                 \* that script->Run is executing: the table at shim entry,
                 \* and whether the engine has called back into the host

\* The unbound scripts of the internal Context (SpecScript).
VARIABLES
  unboundScripts, \* _unboundScripts: sequence of [addr, script]
  scriptPtrs      \* the UnboundScriptPtrs returned so far: set of [ptr, script]

tbl == <<values, savedScopes, curScope, latestScope>>
hist == <<frames, issued, popped, pushedIds>>
ctxVars == <<values, savedScopes, curScope, latestScope, last, frames, issued, popped, pushedIds>>
mVars == <<m_values, m_savedscopes, m_curScope, m_latestScope, m_last, aborted>>
hostVars == <<isolates, contexts, embedderData, reported, fault>>
lockVars == <<lockOwner, thread>>
pairVars == <<tables>>
runVars == <<running>>
scriptVars == <<unboundScripts, scriptPtrs>>
vars == <<ctxVars, mVars, hostVars, lockVars, pairVars, runVars, scriptVars>>

NoArg == "none"

Call(op, arg, ret) == [op |-> op, arg |-> arg, ret |-> ret]

(***************************************************************************)
(* V8GoContext::getValue                                                   *)
(***************************************************************************)
\* Variant: the comparison written > instead of >=.
RECURSIVE scanScopes_strict(_, _, _, _)
scanScopes_strict(saved, i, index, scope) ==
  IF i = 0 THEN scope
  ELSE IF index > saved[i].index THEN scope
  ELSE scanScopes_strict(saved, i - 1, index, saved[i].scope)

\* Variant: the break left out, so the walk always runs to the bottom.
RECURSIVE scanScopes_noBreak(_, _, _, _)
scanScopes_noBreak(saved, i, index, scope) ==
  IF i = 0 THEN scope
  ELSE scanScopes_noBreak(saved, i - 1, index, saved[i].scope)

\* The loop of getValue: walk the checkpoints from the most recent (position
\* i = Len) outward; stop at the first one whose saved length is <= index.
RECURSIVE scanScopes(_, _, _, _)
scanScopes(saved, i, index, scope) ==
  IF i = 0 THEN scope
  ELSE IF index >= saved[i].index THEN scope
  ELSE scanScopes(saved, i - 1, index, saved[i].scope)

\* Variant: the bounds test left out; an index past the end reads whatever
\* lies behind the vector.
getValueIn_noBounds(vals, saved, cur, ref) ==
  IF ref.scope = scanScopes(saved, Len(saved), ref.index, cur)
  THEN [outcome |-> "value",
        val |-> IF ref.index < Len(vals) THEN vals[ref.index + 1] ELSE "garbage",
        slot |-> ref.index]
  ELSE [outcome |-> "obsolete", val |-> Undefined, slot |-> NoArg]

\* getValue on a given table state.  outcome "value": the slot `slot` was read
\* and returned; outcome "obsolete": the diagnostic was printed, no slot was
\* read and v8::Undefined was returned.
getValueIn(vals, saved, cur, ref) ==
  IF ref.index < Len(vals) /\ ref.scope = scanScopes(saved, Len(saved), ref.index, cur)
  THEN [outcome |-> "value", val |-> vals[ref.index + 1], slot |-> ref.index]
  ELSE [outcome |-> "obsolete", val |-> Undefined, slot |-> NoArg]

getValue(ref) == getValueIn(values, savedScopes, curScope, ref)

(***************************************************************************)
(* V8GoContext::addValue                                                   *)
(***************************************************************************)
\* Variant: the reference tagged with _latestScope instead of _curScope.
addValueRef_latest == [scope |-> latestScope, index |-> Len(values)]

\* Variant: the index counts from the start of the current scope.
addValueRef_scopeRelative ==
  [scope |-> curScope,
   index |-> Len(values) - (IF savedScopes = <<>> THEN 0
                            ELSE savedScopes[Len(savedScopes)].index)]

\* ValueRef ref {_curScope, uint32_t(_values.size())}
addValueRef == [scope |-> curScope, index |-> Len(values)]

\* Variant: the new slot is inserted in front of the earlier ones.
addValue_front(val) ==
  /\ values' = <<val>> \o values
  /\ UNCHANGED <<savedScopes, curScope, latestScope>>
  /\ last' = Call("addValue", val, addValueRef)

addValue(val) ==
  /\ values' = Append(values, val)
  /\ UNCHANGED <<savedScopes, curScope, latestScope>>
  /\ last' = Call("addValue", val, addValueRef)

(***************************************************************************)
(* V8GoContext::pushValueScope                                             *)
(***************************************************************************)
\* Variant: the checkpoint records length 0 instead of the table length.
pushValueScope_savesEmptyLength ==
  /\ savedScopes' = Append(savedScopes, [scope |-> curScope, index |-> 0])
  /\ latestScope' = (latestScope + 1) % ScopeModulus
  /\ curScope' = latestScope'
  /\ UNCHANGED values
  /\ last' = Call("pushValueScope", NoArg, curScope')

\* Variant: the checkpoint records the scope the push opens.
pushValueScope_savesNewScope ==
  /\ latestScope' = (latestScope + 1) % ScopeModulus
  /\ curScope' = latestScope'
  /\ savedScopes' = Append(savedScopes, [scope |-> curScope', index |-> Len(values)])
  /\ UNCHANGED values
  /\ last' = Call("pushValueScope", NoArg, curScope')

\* Variant: the checkpoint saves _latestScope instead of _curScope.
pushValueScope_savesLatest ==
  /\ savedScopes' = Append(savedScopes, [scope |-> latestScope, index |-> Len(values)])
  /\ latestScope' = (latestScope + 1) % ScopeModulus
  /\ curScope' = latestScope'
  /\ UNCHANGED values
  /\ last' = Call("pushValueScope", NoArg, curScope')

\* Variant: _curScope = _latestScope++ (the scope before the increment).
pushValueScope_postIncrement ==
  /\ savedScopes' = Append(savedScopes, [scope |-> curScope, index |-> Len(values)])
  /\ latestScope' = (latestScope + 1) % ScopeModulus
  /\ curScope' = latestScope
  /\ UNCHANGED values
  /\ last' = Call("pushValueScope", NoArg, curScope')

pushValueScope ==
  /\ savedScopes' = Append(savedScopes, [scope |-> curScope, index |-> Len(values)])
  /\ latestScope' = (latestScope + 1) % ScopeModulus
  /\ curScope' = latestScope'
  /\ UNCHANGED values
  /\ last' = Call("pushValueScope", NoArg, curScope')

(***************************************************************************)
(* V8GoContext::popValueScope                                              *)
(***************************************************************************)
\* Variant: the truncation removes one slot more than asked.
resize_dropsOneMore(vals, n) ==
  IF n = 0 THEN <<>>
  ELSE IF n <= Len(vals) THEN SubSeq(vals, 1, n - 1)
  ELSE vals \o [k \in 1 .. (n - Len(vals)) |-> EmptyHandle]

\* std::vector::resize
resize(vals, n) ==
  IF n <= Len(vals) THEN SubSeq(vals, 1, n)
  ELSE vals \o [k \in 1 .. (n - Len(vals)) |-> EmptyHandle]

\* Variant: a successful pop leaves the slots above the checkpoint in place.
popValueScope_noResize(scopeID) ==
  IF scopeID # curScope \/ savedScopes = <<>>
  THEN /\ UNCHANGED tbl
       /\ last' = Call("popValueScope", scopeID, FALSE)
  ELSE LET r == savedScopes[Len(savedScopes)] IN
       /\ savedScopes' = SubSeq(savedScopes, 1, Len(savedScopes) - 1)
       /\ curScope' = r.scope
       /\ UNCHANGED <<values, latestScope>>
       /\ last' = Call("popValueScope", scopeID, TRUE)

\* Variant: a successful pop leaves the current scope as it is.
popValueScope_keepsScope(scopeID) ==
  IF scopeID # curScope \/ savedScopes = <<>>
  THEN /\ UNCHANGED tbl
       /\ last' = Call("popValueScope", scopeID, FALSE)
  ELSE LET r == savedScopes[Len(savedScopes)] IN
       /\ savedScopes' = SubSeq(savedScopes, 1, Len(savedScopes) - 1)
       /\ values' = resize(values, r.index)
       /\ UNCHANGED <<curScope, latestScope>>
       /\ last' = Call("popValueScope", scopeID, TRUE)

\* Variant: the scope id is not compared; any id pops the innermost scope.
popValueScope_noIdCheck(scopeID) ==
  IF savedScopes = <<>>
  THEN /\ UNCHANGED tbl
       /\ last' = Call("popValueScope", scopeID, FALSE)
  ELSE LET r == savedScopes[Len(savedScopes)] IN
       /\ savedScopes' = SubSeq(savedScopes, 1, Len(savedScopes) - 1)
       /\ curScope' = r.scope
       /\ values' = resize(values, r.index)
       /\ UNCHANGED latestScope
       /\ last' = Call("popValueScope", scopeID, TRUE)

\* Variant: the empty() test left out; back() of an empty vector then yields
\* a zeroed ValueRef.
popValueScope_noEmptyCheck(scopeID) ==
  IF scopeID # curScope
  THEN /\ UNCHANGED tbl
       /\ last' = Call("popValueScope", scopeID, FALSE)
  ELSE LET r == IF savedScopes = <<>> THEN [scope |-> 0, index |-> 0]
                ELSE savedScopes[Len(savedScopes)] IN
       /\ savedScopes' = SubSeq(savedScopes, 1, Len(savedScopes) - 1)
       /\ curScope' = r.scope
       /\ values' = resize(values, r.index)
       /\ UNCHANGED latestScope
       /\ last' = Call("popValueScope", scopeID, TRUE)

popValueScope(scopeID) ==
  IF scopeID # curScope \/ savedScopes = <<>>
  THEN /\ UNCHANGED tbl
       /\ last' = Call("popValueScope", scopeID, FALSE)
  ELSE LET r == savedScopes[Len(savedScopes)] IN
       /\ savedScopes' = SubSeq(savedScopes, 1, Len(savedScopes) - 1)
       /\ curScope' = r.scope
       /\ values' = resize(values, r.index)
       /\ UNCHANGED latestScope
       /\ last' = Call("popValueScope", scopeID, TRUE)

(***************************************************************************)
(* History kept on behalf of the host.                                     *)
(***************************************************************************)
\* The id of the innermost scope the host has open (the root scope if none).
InnermostOpen == IF frames = <<>> THEN RootScope ELSE frames[Len(frames)].id

(***************************************************************************)
(* The C API calls.                                                        *)
(***************************************************************************)
\* Any shim that returns an engine value to the host (ContextGlobal, RunScript,
\* JSONParse, WithContext::returnValue, ...): ctx->addValue(result).
AddValue(val) ==
  /\ Len(values) < MaxValues
  /\ addValue(val)
  /\ issued' = issued \cup {[ref |-> last'.ret, val |-> val,
                             depth |-> Len(frames), sid |-> InnermostOpen]}
  /\ UNCHANGED <<frames, popped, pushedIds>>

\* Deref(ValuePtr): ptr.ctx->getValue(ptr.ref)
Deref(ref) ==
  /\ last' = Call("getValue", ref, getValue(ref))
  /\ UNCHANGED tbl
  /\ UNCHANGED hist

\* ValueScope PushValueScope(ContextPtr ctx)
PushValueScope ==
  /\ Len(savedScopes) < MaxDepth
  /\ pushValueScope
  /\ frames' = Append(frames, [id |-> last'.ret, scope |-> curScope, vals |-> values])
  /\ pushedIds' = pushedIds \cup {last'.ret}
  /\ UNCHANGED <<issued, popped>>

\* Bool PopValueScope(ContextPtr ctx, ValueScope scope)
PopValueScope(scope) ==
  /\ popValueScope(scope)
  /\ IF last'.ret
     THEN /\ frames' = SubSeq(frames, 1, Len(frames) - 1)
          /\ issued' = {r \in issued : r.depth < Len(frames)}
          /\ popped' = popped \cup {scope}
     ELSE UNCHANGED <<frames, issued, popped>>
  /\ UNCHANGED pushedIds

\* Variant: terminating execution unwinds every open scope.
IsolateTerminateExecution_unwinds ==
  /\ last' = Call("IsolateTerminateExecution", NoArg, NoArg)
  /\ savedScopes' = <<>>
  /\ curScope' = RootScope
  /\ values' = IF savedScopes = <<>> THEN values
                ELSE resize(values, savedScopes[1].index)
  /\ UNCHANGED latestScope
  /\ UNCHANGED hist

\* void IsolateTerminateExecution(IsolatePtr iso): iso->TerminateExecution(),
\* a request to the engine; no Locker is taken and no V8GoContext is touched.
IsolateTerminateExecution ==
  /\ last' = Call("IsolateTerminateExecution", NoArg, NoArg)
  /\ UNCHANGED tbl
  /\ UNCHANGED hist

\* PushValueScope on a Context whose scope counter is not about to overflow.
PushValueScopeNoOverflow ==
  /\ latestScope < MaxScope
  /\ latestScope + 1 < ScopeModulus
  /\ PushValueScope

(***************************************************************************)
(* struct m_ctx (src/v8go.cc): the table design in which every slot        *)
(* carries the ValueRef it was created with.                               *)
(***************************************************************************)
\* m_value(iso, ref, val)
m_value(ref, val) == [ref |-> ref, val |-> val]

\* m_value(): ref{} and an empty Persistent, as vector::resize would create.
m_valueDefault == [ref |-> [scope |-> 0, index |-> 0], val |-> EmptyHandle]

\* Panic(fmt, ...): prints to stderr and calls abort().
Panic(op, arg) ==
  /\ aborted' = TRUE
  /\ m_last' = Call(op, arg, [outcome |-> "abort", val |-> NoArg, slot |-> NoArg])

\* Variant: the slot is tagged with the latest scope handed out.
m_newValue_tagsLatest(val) ==
  LET ref == [scope |-> m_latestScope, index |-> Len(m_values)] IN
  /\ m_values' = Append(m_values, m_value(ref, val))
  /\ UNCHANGED <<m_savedscopes, m_curScope, m_latestScope, aborted>>
  /\ m_last' = Call("newValue", val, ref)

\* m_ctx::newValue
m_newValue(val) ==
  LET ref == [scope |-> m_curScope, index |-> Len(m_values)] IN
  /\ m_values' = Append(m_values, m_value(ref, val))
  /\ UNCHANGED <<m_savedscopes, m_curScope, m_latestScope, aborted>>
  /\ m_last' = Call("newValue", val, ref)

\* The two tests of m_ctx::getValue.
m_accepts(ref) ==
  /\ ref.index < Len(m_values)
  /\ m_values[ref.index + 1].ref.scope = ref.scope

\* m_ctx::getValue
m_getValue(ref) ==
  /\ IF ref.index >= Len(m_values)
     THEN Panic("getValue", ref)
     ELSE IF m_values[ref.index + 1].ref.scope # ref.scope
          THEN Panic("getValue", ref)
          ELSE /\ m_last' = Call("getValue", ref,
                                 [outcome |-> "value",
                                  val |-> m_values[ref.index + 1].val,
                                  slot |-> ref.index])
               /\ UNCHANGED aborted
  /\ UNCHANGED <<m_values, m_savedscopes, m_curScope, m_latestScope>>

\* m_ctx::pushValueScope
m_pushValueScope ==
  /\ m_savedscopes' = Append(m_savedscopes, <<m_curScope, Len(m_values)>>)
  /\ m_latestScope' = (m_latestScope + 1) % ScopeModulus
  /\ m_curScope' = m_latestScope'
  /\ UNCHANGED <<m_values, aborted>>
  /\ m_last' = Call("pushValueScope", NoArg, m_curScope')

m_resize(vals, n) ==
  IF n <= Len(vals) THEN SubSeq(vals, 1, n)
  ELSE vals \o [k \in 1 .. (n - Len(vals)) |-> m_valueDefault]

\* m_ctx::popValueScope
m_popValueScope(scopeID) ==
  IF scopeID # m_curScope \/ m_savedscopes = <<>>
  THEN /\ UNCHANGED <<m_values, m_savedscopes, m_curScope, m_latestScope, aborted>>
       /\ m_last' = Call("popValueScope", scopeID, FALSE)
  ELSE LET back == m_savedscopes[Len(m_savedscopes)] IN
       /\ m_curScope' = back[1]
       /\ m_savedscopes' = SubSeq(m_savedscopes, 1, Len(m_savedscopes) - 1)
       /\ m_values' = m_resize(m_values, back[2])
       /\ UNCHANGED <<m_latestScope, aborted>>
       /\ m_last' = Call("popValueScope", scopeID, TRUE)

(***************************************************************************)
(* The same calls made on a V8GoContext and on an m_ctx, side by side in   *)
(* one process.  After abort() there is no process left to make calls.     *)
(***************************************************************************)
BothAddValue(val) ==
  /\ ~aborted
  /\ AddValue(val)
  /\ m_newValue(val)

BothGetValue(ref) ==
  /\ ~aborted
  /\ Deref(ref)
  /\ m_getValue(ref)

BothPushValueScope ==
  /\ ~aborted
  /\ PushValueScopeNoOverflow
  /\ m_pushValueScope

BothPopValueScope(scope) ==
  /\ ~aborted
  /\ PopValueScope(scope)
  /\ m_popValueScope(scope)

(***************************************************************************)
(* Isolates and Contexts as heap objects: NewIsolate, NewContext,          *)
(* ContextFree, IsolateDispose and the function-template callback.         *)
(***************************************************************************)
\* nullptr
NullPtr == 0

IsoIds == 1 .. MaxIsolates
CtxIds == 1 .. MaxContexts
\* int ref: the identifiers the host gives its Contexts
HostRefs == 1 .. MaxRef
\* values a uintptr_t can be read as having
UintPtrs == 0 .. MaxRef

\* uintptr_t goRef: declared without an initialiser (src/v8go.hh:94) and
\* assigned by no constructor or function.
Uninitialised == "uninitialised"

Min(S) == CHOOSE m \in S : \A k \in S : m <= k

FreeIsos == {i \in IsoIds : isolates[i].state = "none"}
FreeCtxs == {c \in CtxIds : contexts[c].state = "none"}

\* new V8GoContext(iso, context): the constructor initialises iso and ptr and
\* stores `this` in aligned embedder-data slot 2 of the v8::Context; goRef is
\* left as it is.  slot1 is what the caller put into embedder-data slot 1.
newV8GoContext(c, kind, iso, slot1, size) ==
  /\ contexts' = [contexts EXCEPT ![c] = [state |-> "live", kind |-> kind, iso |-> iso,
                                          goRef |-> Uninitialised, size |-> size]]
  /\ embedderData' = [embedderData EXCEPT ![c] = [slot1 |-> slot1, slot2 |-> c]]

\* V8GoContext::fromContext(Local<Context>): the Context stored in the
\* environment's aligned embedder-data slot 2.
fromContext(env) == embedderData[env].slot2

\* delete ctx: runs ~V8GoContext and frees the object; on an object already
\* freed this is undefined behaviour (a crash, or a corrupted heap).
delete(ctx) ==
  IF contexts[ctx].state = "live"
  THEN /\ contexts' = [contexts EXCEPT ![ctx].state = "freed"]
       /\ UNCHANGED fault
  ELSE /\ \E outcome \in {"crash", "corrupt"} : fault' = outcome
       /\ UNCHANGED contexts

\* NewIsolateResult NewIsolate(): creates the isolate and its internal
\* Context, stores it with SetData(0, ctx) and adds four values to it.
NewIsolate ==
  /\ fault # "crash"
  /\ FreeIsos # {}
  /\ FreeCtxs # {}
  /\ LET iso == Min(FreeIsos)
         ctx == Min(FreeCtxs) IN
     /\ isolates' = [isolates EXCEPT ![iso] = [state |-> "live", data |-> ctx]]
     /\ newV8GoContext(ctx, "internal", iso, NullPtr, 4)
  /\ UNCHANGED <<reported, fault>>

\* ContextPtr NewContext(IsolatePtr iso, TemplatePtr, int ref)
NewContext(iso, ref) ==
  /\ fault # "crash"
  /\ isolates[iso].state = "live"
  /\ FreeCtxs # {}
  /\ newV8GoContext(Min(FreeCtxs), "user", iso, ref, 0)
  /\ UNCHANGED <<isolates, reported, fault>>

\* void ContextFree(ContextPtr ctx), for any Context pointer the host was
\* given; a Context still alive is freed before its isolate is disposed.
ContextFree(ctx) ==
  /\ fault # "crash"
  /\ contexts[ctx].state # "none"
  /\ contexts[ctx].state = "live" => isolates[contexts[ctx].iso].state = "live"
  /\ delete(ctx)
  /\ UNCHANGED <<isolates, embedderData, reported>>

\* void IsolateDispose(IsolatePtr iso)
IsolateDispose(iso) ==
  /\ fault # "crash"
  /\ isolates[iso].state = "live"
  /\ delete(isolates[iso].data)
  /\ isolates' = IF fault' = "crash" THEN isolates
                 ELSE [isolates EXCEPT ![iso].state = "disposed"]
  /\ UNCHANGED <<embedderData, reported>>

\* void FunctionTemplateCallback(info), entered by the engine while it runs
\* in the environment env: adds the receiver and the arguments to the table
\* of the Context found from env, then calls goFunctionCallback(ctx->goRef, ...).
FunctionTemplateCallback(env, argc) ==
  /\ fault # "crash"
  /\ contexts[env].state = "live"
  /\ contexts[env].kind = "user"
  /\ isolates[contexts[env].iso].state = "live"
  /\ LET ctx == fromContext(env) IN
     /\ contexts[ctx].size + argc + 1 <= MaxSlots
     /\ contexts' = [contexts EXCEPT ![ctx].size = @ + argc + 1]
     /\ \E goRef \in (IF contexts[ctx].goRef = Uninitialised THEN UintPtrs
                      ELSE {contexts[ctx].goRef}) :
          reported' = {[env |-> env, ctx |-> ctx, goRef |-> goRef]}
  /\ UNCHANGED <<isolates, embedderData, fault>>

(***************************************************************************)
(* Threads entering the C API: each entry point takes the Locker of one    *)
(* isolate, then reads or writes the tables of the Contexts of its         *)
(* arguments, one access after the other, then releases the Locker.  In    *)
(* SpecLock Context c belongs to isolate c.                                *)
(***************************************************************************)
Threads == 1 .. MaxThreads

\* ctx->iso
IsolateOf(ctx) == ctx

Idle == [op |-> "idle", iso |-> NullPtr, todo |-> <<>>, accessing |-> NullPtr]

\* v8::Locker locker(iso): waits until no other thread holds the isolate.
Enter(t, op, iso, todo) ==
  /\ thread[t].op = "idle"
  /\ lockOwner[iso] = {}
  /\ lockOwner' = [lockOwner EXCEPT ![iso] = {t}]
  /\ thread' = [thread EXCEPT ![t] = [op |-> op, iso |-> iso, todo |-> todo,
                                      accessing |-> NullPtr]]

\* PushValueScope(ctx): Locker locker(ctx->iso); ctx->pushValueScope()
EnterPushValueScope(t, ctx) ==
  Enter(t, "PushValueScope", IsolateOf(ctx), <<ctx>>)

\* PopValueScope(ctx, scope): WithIsolate(ctx->iso); ctx->popValueScope(scope)
EnterPopValueScope(t, ctx) ==
  Enter(t, "PopValueScope", IsolateOf(ctx), <<ctx>>)

\* ObjectSet / ObjectSetKey / ObjectSetIdx (ptr, ..., prop_val): WithObject
\* locks ptr.ctx->iso and resolves ptr; Deref(prop_val) then resolves
\* prop_val in prop_val.ctx.
EnterObjectSet(t, ptrCtx, propValCtx) ==
  Enter(t, "ObjectSet", IsolateOf(ptrCtx), <<ptrCtx, propValCtx>>)

\* IsolateThrowException(iso, value): WithIsolate(iso); Deref(value);
\* value.ctx->addValue(...)
EnterIsolateThrowException(t, iso, valueCtx) ==
  Enter(t, "IsolateThrowException", iso, <<valueCtx, valueCtx>>)

\* The thread starts its next table operation.
BeginAccess(t) ==
  /\ thread[t].todo # <<>>
  /\ thread[t].accessing = NullPtr
  /\ thread' = [thread EXCEPT ![t].accessing = Head(thread[t].todo),
                              ![t].todo = Tail(thread[t].todo)]
  /\ UNCHANGED lockOwner

\* The table operation is finished.
EndAccess(t) ==
  /\ thread[t].accessing # NullPtr
  /\ thread' = [thread EXCEPT ![t].accessing = NullPtr]
  /\ UNCHANGED lockOwner

\* The entry point returns: ~Locker releases the isolate.
Return(t) ==
  /\ thread[t].op # "idle"
  /\ thread[t].todo = <<>>
  /\ thread[t].accessing = NullPtr
  /\ lockOwner' = [lockOwner EXCEPT ![thread[t].iso] = {}]
  /\ thread' = [thread EXCEPT ![t] = Idle]

(***************************************************************************)
(* The internal Context of an isolate: NewIsolate creates it and adds      *)
(* undefined, null, false and true to it; afterwards the host uses it like *)
(* any other Context until IsolateDispose frees it (SpecInternal).         *)
(***************************************************************************)
\* Undefined(iso), Null(iso), Boolean::New(iso, false), Boolean::New(iso, true)
BootValues == <<Undefined, "null", "false", "true">>

\* Every ValueRef the host can pass for the internal Context.
InternalRefs == [scope : ScopeIds, index : 0 .. (Len(BootValues) + MaxValues + 1)]

\* The first NewIsolate of the process: the four ctx->addValue calls, each
\* returning {_curScope, _values.size()} before its append.
InternalNewIsolate ==
  /\ FreeIsos = IsoIds
  /\ NewIsolate
  /\ values' = values \o BootValues
  /\ UNCHANGED <<savedScopes, curScope, latestScope>>
  /\ last' = Call("NewIsolate", NoArg,
                  [i \in 1 .. Len(BootValues) |->
                     [scope |-> curScope, index |-> Len(values) + i - 1]])
  /\ issued' = {[ref |-> last'.ret[i], val |-> BootValues[i],
                 depth |-> Len(frames), sid |-> InnermostOpen] :
                  i \in 1 .. Len(BootValues)}
  /\ UNCHANGED <<frames, popped, pushedIds>>

\* The isolate created first and its internal Context are alive.
InternalLive ==
  /\ isolates[Min(IsoIds)].state = "live"
  /\ contexts[isolates[Min(IsoIds)].data].state = "live"

\* A shim returning an engine value through the internal Context.
InternalAddValue(val) ==
  /\ InternalLive
  /\ Len(values) < Len(BootValues) + MaxValues
  /\ addValue(val)
  /\ issued' = issued \cup {[ref |-> last'.ret, val |-> val,
                             depth |-> Len(frames), sid |-> InnermostOpen]}
  /\ UNCHANGED <<frames, popped, pushedIds>>

InternalDeref(ref) == InternalLive /\ Deref(ref)

InternalPushValueScope == InternalLive /\ PushValueScopeNoOverflow

InternalPopValueScope(scope) == InternalLive /\ PopValueScope(scope)

\* IsolateDispose of that isolate: frees the internal Context.
InternalIsolateDispose ==
  /\ InternalLive
  /\ IsolateDispose(Min(IsoIds))
  /\ last' = Call("IsolateDispose", NoArg, NoArg)
  /\ UNCHANGED tbl
  /\ UNCHANGED hist

(***************************************************************************)
(* Shims on one Context that hand the resolved values to the engine        *)
(* (object.cc) and the callback the engine enters (template.cc), at the    *)
(* level of the Context's table (SpecShim).                                *)
(***************************************************************************)
\* info.This() of a callback.
This == "This"

\* info[i] of a callback.
ArgValues == {"Arg"}

\* value->IsObject(): of the engine values of the model, "A" (as returned by
\* NewObject) and the receiver of a callback are objects.
IsObject(val) == val \in {"A", This}

\* The references the host passes as prop_val.
PropRefs == {ref \in AllRefs : ref.index = 0}

\* The process has not crashed.
ShimLive == fault # "crash"

ShimAddValue(val) == ShimLive /\ AddValue(val)

ShimDeref(ref) == ShimLive /\ Deref(ref)

ShimPushValueScope == ShimLive /\ PushValueScopeNoOverflow

ShimPopValueScope(scope) == ShimLive /\ PopValueScope(scope)

\* WithObject(ValuePtr ptr): WithValue(ptr), obj(value.As<Object>())
\* value is Deref(ptr); As<Object>() is a cast that checks nothing, and the
\* shim then applies the Object operation to obj.
WithObject(ptr) ==
  LET value == getValue(ptr) IN
  [obsolete |-> value.outcome = "obsolete",
   value |-> value.val,
   applied |-> "Object"]

\* void ObjectSet(ValuePtr ptr, key, keyLen, ValuePtr prop_val):
\* _with.obj->Set(local_ctx, key_val, Deref(prop_val)).  An Object operation
\* on a value that is no object is undefined behaviour.
ObjectSet(ptr, prop_val) ==
  /\ ShimLive
  /\ LET _with == WithObject(ptr) IN
     /\ last' = Call("ObjectSet", ptr,
                     [obsolete |-> _with.obsolete, receiver |-> _with.value,
                      applied |-> _with.applied, prop |-> getValue(prop_val).val])
     /\ IF IsObject(_with.value)
        THEN UNCHANGED fault
        ELSE \E outcome \in {fault, "crash", "corrupt"} : fault' = outcome
  /\ UNCHANGED <<isolates, contexts, embedderData, reported>>
  /\ UNCHANGED tbl
  /\ UNCHANGED hist

\* Variant: the arguments are added before the receiver.
thisAndArgs_argsFirst(args) == args \o <<This>>

\* thisAndArgs[0] = this, thisAndArgs[1+i] = info[i]
thisAndArgs(args) == <<This>> \o args

\* void FunctionTemplateCallback(info) on the table of the Context it found:
\* ctx->addValue(info.This()), then ctx->addValue(info[i]) for each argument,
\* then goFunctionCallback(goRef, callback_ref, thisAndArgs, args_count),
\* whose reply val is resolved when val.ctx is not null (val is the empty set
\* for a null val.ctx, else the set of the one reference replied).
FunctionTemplateCallbackOnTable(args, val) ==
  /\ ShimLive
  /\ Len(values) + Len(args) + 1 <= MaxValues
  /\ values' = values \o thisAndArgs(args)
  /\ UNCHANGED <<savedScopes, curScope, latestScope>>
  /\ LET refs == [i \in 1 .. (Len(args) + 1) |->
                    [scope |-> curScope, index |-> Len(values) + i - 1]] IN
     /\ last' = Call("FunctionTemplateCallback", Len(args),
                     [thisAndArgs |-> refs,
                      rtn |-> IF val = {} THEN Undefined
                              ELSE getValueIn(values', savedScopes, curScope,
                                              CHOOSE ref \in val : TRUE).val])
     /\ issued' = issued \cup
                    {[ref |-> refs[i], val |-> thisAndArgs(args)[i],
                      depth |-> Len(frames), sid |-> InnermostOpen] :
                       i \in 1 .. (Len(args) + 1)}
  /\ UNCHANGED <<frames, popped, pushedIds>>

(***************************************************************************)
(* Two Contexts of one isolate, each a V8GoContext with its own table, and *)
(* the entry points called with a ContextPtr or with ValuePtrs (SpecTwo).  *)
(***************************************************************************)
ContextPtrs == {"ctx1", "ctx2"}

\* The scopes open at once on either Context of SpecTwo.
TwoDepth == 1

\* typedef struct { ContextPtr ctx; ValueRef ref; } ValuePtr, for the
\* references a table of at most MaxValues slots can have returned.
ValuePtrs ==
  [ctx : ContextPtrs,
   ref : {ref \in AllRefs : ref.scope >= RootScope /\ ref.index <= MaxValues}]

\* The ValuePtrs the host passes as the function of a call.
FnPtrs == {ptr \in ValuePtrs : ptr.ref.index = 0 /\ ptr.ref.scope <= RootScope + 1}

\* The ValuePtrs the host passes as receiver and as arguments of a call.
RecvPtrs == {ptr \in ValuePtrs : ptr.ref = [scope |-> RootScope, index |-> 0]}

\* The engine values that shims return in SpecTwo.
TwoValues == {"A"}

\* The members of a new V8GoContext: empty vectors, _latestScope = 1, _curScope = 1
newTable ==
  [values |-> <<>>, savedScopes |-> <<>>, curScope |-> RootScope, latestScope |-> RootScope]

\* ctx->addValue(val): the table afterwards, and the reference returned.
addValueOn(t, val) == [t EXCEPT !.values = Append(@, val)]

addValueRefOn(t) == [scope |-> t.curScope, index |-> Len(t.values)]

\* ctx->getValue(ref)
getValueOn(t, ref) == getValueIn(t.values, t.savedScopes, t.curScope, ref)

\* ctx->pushValueScope(): the table afterwards; the scope returned is its curScope.
pushValueScopeOn(t) ==
  [values |-> t.values,
   savedScopes |-> Append(t.savedScopes, [scope |-> t.curScope, index |-> Len(t.values)]),
   latestScope |-> (t.latestScope + 1) % ScopeModulus,
   curScope |-> (t.latestScope + 1) % ScopeModulus]

\* ctx->popValueScope(scopeID): whether it succeeds, and the table afterwards.
popValueScopeOk(t, scopeID) == ~(scopeID # t.curScope \/ t.savedScopes = <<>>)

popValueScopeOn(t, scopeID) ==
  IF ~popValueScopeOk(t, scopeID) THEN t
  ELSE LET r == t.savedScopes[Len(t.savedScopes)] IN
       [values |-> resize(t.values, r.index),
        savedScopes |-> SubSeq(t.savedScopes, 1, Len(t.savedScopes) - 1),
        curScope |-> r.scope,
        latestScope |-> t.latestScope]

\* value->IsFunction(): of the engine values of the model, "A" is a function.
IsFunction(val) == val = "A"

TwoLive == fault # "crash"

\* A shim called with ContextPtr ctx that returns an engine value:
\* WithContext _with(ctx); return _with.returnValue(...)
TwoAddValue(ctx, val) ==
  /\ TwoLive
  /\ Len(tables[ctx].values) < MaxValues
  /\ tables' = [tables EXCEPT ![ctx] = addValueOn(@, val)]
  /\ last' = Call("addValue", [ctx |-> ctx], addValueRefOn(tables[ctx]))
  /\ UNCHANGED tbl
  /\ UNCHANGED hist

\* Deref(ValuePtr ptr): ptr.ctx->getValue(ptr.ref)
TwoDeref(ptr) ==
  /\ TwoLive
  /\ last' = Call("getValue", ptr, getValueOn(tables[ptr.ctx], ptr.ref))
  /\ UNCHANGED tables
  /\ UNCHANGED tbl
  /\ UNCHANGED hist

\* ValueScope PushValueScope(ContextPtr ctx)
TwoPushValueScope(ctx) ==
  /\ TwoLive
  /\ Len(tables[ctx].savedScopes) < TwoDepth
  /\ tables[ctx].latestScope < MaxScope
  /\ tables' = [tables EXCEPT ![ctx] = pushValueScopeOn(@)]
  /\ last' = Call("pushValueScope", [ctx |-> ctx], tables'[ctx].curScope)
  /\ UNCHANGED tbl
  /\ UNCHANGED hist

\* Bool PopValueScope(ContextPtr ctx, ValueScope scope)
TwoPopValueScope(ctx, scope) ==
  /\ TwoLive
  /\ tables' = [tables EXCEPT ![ctx] = popValueScopeOn(@, scope)]
  /\ last' = Call("popValueScope", [ctx |-> ctx, scope |-> scope],
                  popValueScopeOk(tables[ctx], scope))
  /\ UNCHANGED tbl
  /\ UNCHANGED hist

\* Variant: the result is added to the Context of the receiver.
returnCtx_ofReceiver(ptr, recv) == recv.ctx

\* rtn.value = ptr.ctx->addValue(result)
returnCtx(ptr, recv) == ptr.ctx

\* RtnValue FunctionCall(ValuePtr ptr, ValuePtr recv, int argc, ValuePtr args[]):
\* the function, the arguments and the receiver are each resolved through
\* their own ValuePtr; result is the set of the value fn->Call returned, empty
\* when it threw.  Local<Function>::Cast tests nothing, so calling a value
\* that is no function is undefined behaviour.
FunctionCall(ptr, recv, args, result) ==
  /\ TwoLive
  /\ LET fn == getValueOn(tables[ptr.ctx], ptr.ref).val
         argv == [i \in 1 .. Len(args) |->
                    getValueOn(tables[args[i].ctx], args[i].ref).val]
         local_recv == getValueOn(tables[recv.ctx], recv.ref).val
         ctx == returnCtx(ptr, recv)
         arg == [ctx |-> ptr.ctx, recv |-> recv.ctx,
                 called |-> IsFunction(fn) /\ local_recv \in Values
                              /\ \A i \in 1 .. Len(argv) : argv[i] \in Values]
     IN IF ~IsFunction(fn)
        THEN /\ \E outcome \in {fault, "crash", "corrupt"} : fault' = outcome
             /\ UNCHANGED tables
             /\ last' = Call("FunctionCall", arg,
                             [error |-> TRUE, value |-> [scope |-> 0, index |-> 0]])
        ELSE /\ UNCHANGED fault
             /\ IF result = {}
                THEN /\ UNCHANGED tables
                     /\ last' = Call("FunctionCall", arg,
                                     [error |-> TRUE, value |-> [scope |-> 0, index |-> 0]])
                ELSE /\ Len(tables[ctx].values) < MaxValues
                     /\ tables' = [tables EXCEPT
                                     ![ctx] = addValueOn(@, CHOOSE val \in result : TRUE)]
                     /\ last' = Call("FunctionCall", arg,
                                     [error |-> FALSE, value |-> addValueRefOn(tables[ctx])])
  /\ UNCHANGED <<isolates, contexts, embedderData, reported>>
  /\ UNCHANGED tbl
  /\ UNCHANGED hist

(***************************************************************************)
(* Shims whose engine operation can fail (RunScript, JSONParse,            *)
(* WithContext::returnValue of a MaybeLocal) on one Context.  While        *)
(* script->Run executes, the engine may call FunctionTemplateCallback, and *)
(* the host code it calls may use the table (SpecRun).                     *)
(***************************************************************************)
\* The engine values that the shims of SpecRun return.
RunValues == {"A"}

\* The table as one value.
table ==
  [values |-> values, savedScopes |-> savedScopes,
   curScope |-> curScope, latestScope |-> latestScope]

\* The host is running: outside every script, or inside a callback.
HostRuns == running = {} \/ \E r \in running : r.reentered

\* Variant: a failing shim returns a reference to a new slot holding undefined.
rtnError_addsUndefined(op, stage) ==
  /\ values' = Append(values, Undefined)
  /\ UNCHANGED <<savedScopes, curScope, latestScope>>
  /\ last' = Call(op, [stage |-> stage, reentered |-> \E r \in running : r.reentered],
                  [error |-> TRUE, value |-> addValueRef])

\* RtnValue rtn = {}; rtn.error = _with.exceptionError(); return rtn;
rtnError(op, stage) ==
  /\ UNCHANGED tbl
  /\ last' = Call(op, [stage |-> stage, reentered |-> \E r \in running : r.reentered],
                  [error |-> TRUE, value |-> [scope |-> 0, index |-> 0]])

\* rtn.value = ctx->addValue(result); return rtn;
rtnValue(val) ==
  /\ Len(values) < MaxValues
  /\ addValue(val)
  /\ issued' = issued \cup {[ref |-> last'.ret, val |-> val,
                             depth |-> Len(frames), sid |-> InnermostOpen]}
  /\ UNCHANGED <<frames, popped, pushedIds>>

\* RunScript when String::NewFromUtf8 or Script::Compile yields nothing:
\* no script has run.
RunScriptNoScript(stage) ==
  /\ HostRuns
  /\ rtnError("RunScript", stage)
  /\ UNCHANGED hist
  /\ UNCHANGED running

\* RunScript from its entry to the call of script->Run.
RunScriptRun ==
  /\ running = {}
  /\ running' = {[entry |-> table, reentered |-> FALSE]}
  /\ last' = Call("Script::Run", NoArg, NoArg)
  /\ UNCHANGED tbl
  /\ UNCHANGED hist

\* script->Run has returned: result is empty when the script threw or was
\* terminated, else the set of the value it returned.
RunScriptReturn(result) ==
  /\ running # {}
  /\ running' = {}
  /\ IF result = {}
     THEN rtnError("RunScript", "run") /\ UNCHANGED hist
     ELSE rtnValue(CHOOSE val \in result : TRUE)

\* RtnValue JSONParse(ContextPtr ctx, str, len)
JSONParse(result) ==
  /\ HostRuns
  /\ IF result = {}
     THEN rtnError("JSONParse", "parse") /\ UNCHANGED hist
     ELSE rtnValue(CHOOSE val \in result : TRUE)
  /\ UNCHANGED running

\* RtnValue WithContext::returnValue(MaybeLocal<T> maybeVal)
returnValue(maybeVal) ==
  /\ HostRuns
  /\ IF maybeVal = {}
     THEN rtnError("returnValue", "empty") /\ UNCHANGED hist
     ELSE rtnValue(CHOOSE val \in maybeVal : TRUE)
  /\ UNCHANGED running

\* The engine enters FunctionTemplateCallback while the script runs.
RunCallback(args, val) ==
  /\ running # {}
  /\ FunctionTemplateCallbackOnTable(args, val)
  /\ running' = {[r EXCEPT !.reentered = TRUE] : r \in running}

\* The host, outside every script or inside a callback, pushes and pops.
RunPushValueScope == HostRuns /\ PushValueScopeNoOverflow /\ UNCHANGED running

RunPopValueScope(scope) == HostRuns /\ PopValueScope(scope) /\ UNCHANGED running

(***************************************************************************)
(* The unbound scripts of the internal Context: IsolateCompileUnboundScript*)
(* stores them in its std::deque and returns the address of the stored     *)
(* element; UnboundScriptRun reads through that address (SpecScript).      *)
(***************************************************************************)
\* The sources the host compiles.
ScriptSources == {"s1", "s2"}

\* The engine values that shims return in SpecScript.
ScriptValues == {"A"}

\* The addresses at which the deque can place an element.
Addrs == 1 .. MaxScripts

\* The addresses no element of the store occupies.
FreeAddrs(store) == Addrs \ {store[i].addr : i \in 1 .. Len(store)}

\* Variant: a store that moves its elements when it grows, as std::vector.
emplace_back_relocates(store, addr, script) ==
  [i \in 1 .. (Len(store) + 1) |->
     IF i <= Len(store)
     THEN [addr |-> store[i].addr + MaxScripts, script |-> store[i].script]
     ELSE [addr |-> addr, script |-> script]]

\* std::deque::emplace_back: the new element is placed at addr, the
\* elements already stored stay where they are.
emplace_back(store, addr, script) ==
  Append(store, [addr |-> addr, script |-> script])

ScriptNewIsolate == InternalNewIsolate /\ UNCHANGED scriptVars

ScriptAddValue(val) == InternalAddValue(val) /\ UNCHANGED scriptVars

ScriptPushValueScope == InternalPushValueScope /\ UNCHANGED scriptVars

ScriptPopValueScope(scope) == InternalPopValueScope(scope) /\ UNCHANGED scriptVars

\* RtnUnboundScript IsolateCompileUnboundScript(iso, s, sLen, o, oLen, opts):
\* compiled is whether CompileUnboundScript yielded a script; on success
\* rtn.ptr = ctx->newUnboundScript(script) = &_unboundScripts.back().
IsolateCompileUnboundScript(source, compiled, addr) ==
  /\ InternalLive
  /\ IF ~compiled
     THEN /\ last' = Call("IsolateCompileUnboundScript", source,
                          [error |-> TRUE, ptr |-> NullPtr])
          /\ UNCHANGED scriptVars
     ELSE /\ Len(unboundScripts) < MaxScripts
          /\ addr \in FreeAddrs(unboundScripts)
          /\ unboundScripts' = emplace_back(unboundScripts, addr, source)
          /\ LET ptr == unboundScripts'[Len(unboundScripts')].addr IN
             /\ last' = Call("IsolateCompileUnboundScript", source,
                             [error |-> FALSE, ptr |-> ptr])
             /\ scriptPtrs' = scriptPtrs \cup {[ptr |-> ptr, script |-> source]}
  /\ UNCHANGED tbl
  /\ UNCHANGED hist
  /\ UNCHANGED hostVars

\* RtnValue UnboundScriptRun(ContextPtr ctx, UnboundScriptPtr us_ptr) with a
\* pointer the host was given: us_ptr->ptr.Get(iso) reads the element at
\* that address (undefined behaviour when none is there), the script runs,
\* and its result, if any, is added to ctx.
UnboundScriptRun(us_ptr, result) ==
  /\ InternalLive
  /\ us_ptr \in {p.ptr : p \in scriptPtrs}
  /\ LET at == {i \in 1 .. Len(unboundScripts) : unboundScripts[i].addr = us_ptr} IN
     IF at = {}
     THEN /\ \E outcome \in {"crash", "corrupt"} : fault' = outcome
          /\ last' = Call("UnboundScriptRun", us_ptr, [error |-> TRUE, script |-> {}])
          /\ UNCHANGED tbl
          /\ UNCHANGED hist
     ELSE /\ UNCHANGED fault
          /\ IF result = {}
             THEN /\ last' = Call("UnboundScriptRun", us_ptr,
                                  [error |-> TRUE,
                                   script |-> {unboundScripts[i].script : i \in at}])
                  /\ UNCHANGED tbl
                  /\ UNCHANGED hist
             ELSE /\ Len(values) < Len(BootValues) + MaxValues
                  /\ addValue(CHOOSE val \in result : TRUE)
                  /\ issued' = issued \cup
                       {[ref |-> last'.ret, val |-> CHOOSE val \in result : TRUE,
                         depth |-> Len(frames), sid |-> InnermostOpen]}
                  /\ UNCHANGED <<frames, popped, pushedIds>>
  /\ UNCHANGED <<isolates, contexts, embedderData, reported>>
  /\ UNCHANGED scriptVars

\* IsolateDispose: ~V8GoContext destroys the deque with the Context.
ScriptIsolateDispose ==
  /\ InternalIsolateDispose
  /\ unboundScripts' = <<>>
  /\ UNCHANGED scriptPtrs

Init ==
  /\ values = <<>>
  /\ savedScopes = <<>>
  /\ curScope = RootScope
  /\ latestScope = RootScope
  /\ last = Call("NewContext", NoArg, NoArg)
  /\ frames = <<>>
  /\ issued = {}
  /\ popped = {}
  /\ pushedIds = {}
  /\ m_values = <<>>
  /\ m_savedscopes = <<>>
  /\ m_curScope = RootScope
  /\ m_latestScope = RootScope
  /\ m_last = Call("m_ctx", NoArg, NoArg)
  /\ aborted = FALSE
  /\ isolates = [i \in IsoIds |-> [state |-> "none", data |-> NullPtr]]
  /\ contexts = [c \in CtxIds |-> [state |-> "none", kind |-> "none", iso |-> NullPtr,
                                   goRef |-> Uninitialised, size |-> 0]]
  /\ embedderData = [c \in CtxIds |-> [slot1 |-> NullPtr, slot2 |-> NullPtr]]
  /\ reported = {}
  /\ fault = "none"
  /\ lockOwner = [i \in IsoIds |-> {}]
  /\ thread = [t \in Threads |-> Idle]
  /\ tables = [ctx \in ContextPtrs |-> newTable]
  /\ running = {}
  /\ unboundScripts = <<>>
  /\ scriptPtrs = {}

\* A Context over whose lifetime fewer than MaxScope scopes are pushed.
Next ==
  \/ \E val \in Values : AddValue(val) /\ UNCHANGED <<mVars, hostVars, lockVars, pairVars, runVars, scriptVars>>
  \/ \E ref \in AllRefs : Deref(ref) /\ UNCHANGED <<mVars, hostVars, lockVars, pairVars, runVars, scriptVars>>
  \/ PushValueScopeNoOverflow /\ UNCHANGED <<mVars, hostVars, lockVars, pairVars, runVars, scriptVars>>
  \/ \E scope \in ScopeIds : PopValueScope(scope) /\ UNCHANGED <<mVars, hostVars, lockVars, pairVars, runVars, scriptVars>>
  \/ IsolateTerminateExecution /\ UNCHANGED <<mVars, hostVars, lockVars, pairVars, runVars, scriptVars>>

Spec == Init /\ [][Next]_vars

\* A Context with no limit on the number of scopes pushed: ++_latestScope
\* wraps around.
NextWrap ==
  \/ \E val \in Values : AddValue(val) /\ UNCHANGED <<mVars, hostVars, lockVars, pairVars, runVars, scriptVars>>
  \/ \E ref \in AllRefs : Deref(ref) /\ UNCHANGED <<mVars, hostVars, lockVars, pairVars, runVars, scriptVars>>
  \/ PushValueScope /\ UNCHANGED <<mVars, hostVars, lockVars, pairVars, runVars, scriptVars>>
  \/ \E scope \in ScopeIds : PopValueScope(scope) /\ UNCHANGED <<mVars, hostVars, lockVars, pairVars, runVars, scriptVars>>
  \/ IsolateTerminateExecution /\ UNCHANGED <<mVars, hostVars, lockVars, pairVars, runVars, scriptVars>>

SpecWrap == Init /\ [][NextWrap]_vars

\* A V8GoContext and an m_ctx given the same calls.
NextBoth ==
  \/ \E val \in Values : BothAddValue(val) /\ UNCHANGED <<hostVars, lockVars, pairVars, runVars, scriptVars>>
  \/ \E ref \in AllRefs : BothGetValue(ref) /\ UNCHANGED <<hostVars, lockVars, pairVars, runVars, scriptVars>>
  \/ BothPushValueScope /\ UNCHANGED <<hostVars, lockVars, pairVars, runVars, scriptVars>>
  \/ \E scope \in ScopeIds : BothPopValueScope(scope) /\ UNCHANGED <<hostVars, lockVars, pairVars, runVars, scriptVars>>

SpecBoth == Init /\ [][NextBoth]_vars

\* The host creating and destroying isolates and Contexts, and the engine
\* calling back.
NextHost ==
  \/ NewIsolate /\ UNCHANGED <<ctxVars, mVars, lockVars, pairVars, runVars, scriptVars>>
  \/ \E iso \in IsoIds, ref \in HostRefs :
       NewContext(iso, ref) /\ UNCHANGED <<ctxVars, mVars, lockVars, pairVars, runVars, scriptVars>>
  \/ \E ctx \in CtxIds : ContextFree(ctx) /\ UNCHANGED <<ctxVars, mVars, lockVars, pairVars, runVars, scriptVars>>
  \/ \E iso \in IsoIds : IsolateDispose(iso) /\ UNCHANGED <<ctxVars, mVars, lockVars, pairVars, runVars, scriptVars>>
  \/ \E env \in CtxIds, argc \in 0 .. MaxArgs :
       FunctionTemplateCallback(env, argc) /\ UNCHANGED <<ctxVars, mVars, lockVars, pairVars, runVars, scriptVars>>

SpecHost == Init /\ [][NextHost]_vars

\* Host threads calling entry points on the Contexts of two isolates.
NextLock ==
  \/ \E t \in Threads, ctx \in IsoIds :
       EnterPushValueScope(t, ctx) /\ UNCHANGED <<ctxVars, mVars, hostVars, pairVars, runVars, scriptVars>>
  \/ \E t \in Threads, ctx \in IsoIds :
       EnterPopValueScope(t, ctx) /\ UNCHANGED <<ctxVars, mVars, hostVars, pairVars, runVars, scriptVars>>
  \/ \E t \in Threads, ptrCtx \in IsoIds, propValCtx \in IsoIds :
       EnterObjectSet(t, ptrCtx, propValCtx) /\ UNCHANGED <<ctxVars, mVars, hostVars, pairVars, runVars, scriptVars>>
  \/ \E t \in Threads, iso \in IsoIds, valueCtx \in IsoIds :
       EnterIsolateThrowException(t, iso, valueCtx) /\ UNCHANGED <<ctxVars, mVars, hostVars, pairVars, runVars, scriptVars>>
  \/ \E t \in Threads : BeginAccess(t) /\ UNCHANGED <<ctxVars, mVars, hostVars, pairVars, runVars, scriptVars>>
  \/ \E t \in Threads : EndAccess(t) /\ UNCHANGED <<ctxVars, mVars, hostVars, pairVars, runVars, scriptVars>>
  \/ \E t \in Threads : Return(t) /\ UNCHANGED <<ctxVars, mVars, hostVars, pairVars, runVars, scriptVars>>

SpecLock == Init /\ [][NextLock]_vars

\* The internal Context of the first isolate, from NewIsolate to IsolateDispose.
NextInternal ==
  \/ InternalNewIsolate /\ UNCHANGED <<mVars, lockVars, pairVars, runVars, scriptVars>>
  \/ \E val \in Values : InternalAddValue(val) /\ UNCHANGED <<mVars, hostVars, lockVars, pairVars, runVars, scriptVars>>
  \/ \E ref \in InternalRefs : InternalDeref(ref) /\ UNCHANGED <<mVars, hostVars, lockVars, pairVars, runVars, scriptVars>>
  \/ InternalPushValueScope /\ UNCHANGED <<mVars, hostVars, lockVars, pairVars, runVars, scriptVars>>
  \/ \E scope \in ScopeIds :
       InternalPopValueScope(scope) /\ UNCHANGED <<mVars, hostVars, lockVars, pairVars, runVars, scriptVars>>
  \/ InternalIsolateDispose /\ UNCHANGED <<mVars, lockVars, pairVars, runVars, scriptVars>>

SpecInternal == Init /\ [][NextInternal]_vars

\* One Context's table and the object shims.
NextShim ==
  \/ \E val \in Values : ShimAddValue(val) /\ UNCHANGED <<mVars, hostVars, lockVars, pairVars, runVars, scriptVars>>
  \/ \E ref \in AllRefs : ShimDeref(ref) /\ UNCHANGED <<mVars, hostVars, lockVars, pairVars, runVars, scriptVars>>
  \/ ShimPushValueScope /\ UNCHANGED <<mVars, hostVars, lockVars, pairVars, runVars, scriptVars>>
  \/ \E scope \in ScopeIds : ShimPopValueScope(scope) /\ UNCHANGED <<mVars, hostVars, lockVars, pairVars, runVars, scriptVars>>
  \/ \E ptr \in AllRefs, prop_val \in PropRefs :
       ObjectSet(ptr, prop_val) /\ UNCHANGED <<mVars, lockVars, pairVars, runVars, scriptVars>>

SpecShim == Init /\ [][NextShim]_vars

\* One Context's table and the callback the engine enters.
NextCallback ==
  \/ \E val \in Values : ShimAddValue(val) /\ UNCHANGED <<mVars, hostVars, lockVars, pairVars, runVars, scriptVars>>
  \/ \E ref \in AllRefs : ShimDeref(ref) /\ UNCHANGED <<mVars, hostVars, lockVars, pairVars, runVars, scriptVars>>
  \/ ShimPushValueScope /\ UNCHANGED <<mVars, hostVars, lockVars, pairVars, runVars, scriptVars>>
  \/ \E scope \in ScopeIds : ShimPopValueScope(scope) /\ UNCHANGED <<mVars, hostVars, lockVars, pairVars, runVars, scriptVars>>
  \/ \E argc \in 0 .. MaxArgs : \E args \in [1 .. argc -> ArgValues] :
       \E val \in {{}} \cup {{ref} : ref \in AllRefs} :
         FunctionTemplateCallbackOnTable(args, val) /\ UNCHANGED <<mVars, hostVars, lockVars, pairVars, runVars, scriptVars>>

SpecCallback == Init /\ [][NextCallback]_vars

\* Two Contexts and the entry points called with them.
NextTwo ==
  \/ \E ctx \in ContextPtrs, val \in TwoValues :
       TwoAddValue(ctx, val) /\ UNCHANGED <<mVars, hostVars, lockVars, runVars, scriptVars>>
  \/ \E ptr \in ValuePtrs : TwoDeref(ptr) /\ UNCHANGED <<mVars, hostVars, lockVars, runVars, scriptVars>>
  \/ \E ctx \in ContextPtrs : TwoPushValueScope(ctx) /\ UNCHANGED <<mVars, hostVars, lockVars, runVars, scriptVars>>
  \/ \E ctx \in ContextPtrs, scope \in ScopeIds :
       TwoPopValueScope(ctx, scope) /\ UNCHANGED <<mVars, hostVars, lockVars, runVars, scriptVars>>
  \/ \E ptr \in FnPtrs, recv \in RecvPtrs :
       \E argc \in 0 .. MaxArgs : \E args \in [1 .. argc -> RecvPtrs] :
         \E result \in {{}} \cup {{val} : val \in TwoValues} :
           FunctionCall(ptr, recv, args, result) /\ UNCHANGED <<mVars, lockVars, runVars, scriptVars>>

SpecTwo == Init /\ [][NextTwo]_vars

\* One Context, the shims that can fail, and the callbacks of a running script.
NextRun ==
  \/ \E stage \in {"source", "compile"} :
       RunScriptNoScript(stage) /\ UNCHANGED <<mVars, hostVars, lockVars, pairVars, scriptVars>>
  \/ RunScriptRun /\ UNCHANGED <<mVars, hostVars, lockVars, pairVars, scriptVars>>
  \/ \E result \in {{}} \cup {{val} : val \in RunValues} :
       RunScriptReturn(result) /\ UNCHANGED <<mVars, hostVars, lockVars, pairVars, scriptVars>>
  \/ \E result \in {{}} \cup {{val} : val \in RunValues} :
       JSONParse(result) /\ UNCHANGED <<mVars, hostVars, lockVars, pairVars, scriptVars>>
  \/ \E maybeVal \in {{}} \cup {{val} : val \in RunValues} :
       returnValue(maybeVal) /\ UNCHANGED <<mVars, hostVars, lockVars, pairVars, scriptVars>>
  \/ \E argc \in 0 .. MaxArgs : \E args \in [1 .. argc -> ArgValues] :
       RunCallback(args, {}) /\ UNCHANGED <<mVars, hostVars, lockVars, pairVars, scriptVars>>
  \/ RunPushValueScope /\ UNCHANGED <<mVars, hostVars, lockVars, pairVars, scriptVars>>
  \/ \E scope \in ScopeIds :
       RunPopValueScope(scope) /\ UNCHANGED <<mVars, hostVars, lockVars, pairVars, scriptVars>>

SpecRun == Init /\ [][NextRun]_vars

\* The internal Context, its table and its unbound scripts.
NextScript ==
  \/ ScriptNewIsolate /\ UNCHANGED <<mVars, lockVars, pairVars, runVars>>
  \/ \E val \in ScriptValues :
       ScriptAddValue(val) /\ UNCHANGED <<mVars, hostVars, lockVars, pairVars, runVars>>
  \/ ScriptPushValueScope /\ UNCHANGED <<mVars, hostVars, lockVars, pairVars, runVars>>
  \/ \E scope \in ScopeIds :
       ScriptPopValueScope(scope) /\ UNCHANGED <<mVars, hostVars, lockVars, pairVars, runVars>>
  \/ \E source \in ScriptSources, compiled \in BOOLEAN, addr \in Addrs :
       IsolateCompileUnboundScript(source, compiled, addr)
         /\ UNCHANGED <<mVars, lockVars, pairVars, runVars>>
  \/ \E us_ptr \in Addrs : \E result \in {{}} \cup {{val} : val \in ScriptValues} :
       UnboundScriptRun(us_ptr, result) /\ UNCHANGED <<mVars, lockVars, pairVars, runVars>>
  \/ ScriptIsolateDispose /\ UNCHANGED <<mVars, lockVars, pairVars, runVars>>

SpecScript == Init /\ [][NextScript]_vars

(***************************************************************************)
(* Properties.                                                             *)
(***************************************************************************)
Resolves(ref) == getValue(ref).outcome = "value"

IsPop(c) == c.op = "popValueScope"

\* The resolve result of every reference is the same before and after a step.
ResolveUnchanged ==
  \A ref \in AllRefs : getValueIn(values', savedScopes', curScope', ref) = getValue(ref)

\* C1: every reference returned by addValue while a pushed scope s is the
\* current scope carries scope = s (the id that push returned), and it resolves
\* in every state until that scope is popped, also while scopes are pushed and
\* popped inside s.
C1_OpenScopeRefsResolve ==
  \A r \in issued : r.depth >= 1 => (r.ref.scope = r.sid /\ Resolves(r.ref))

\* A reference of an outer pushed scope is held after an inner scope was pushed
\* and popped again.
C1_Witness ==
  /\ Len(frames) = 1
  /\ \E r \in issued : /\ r.depth = 1
                       /\ r.ref.scope = frames[1].id
                       /\ \E p \in popped : p > r.ref.scope

\* C2: after popScope(id) returned true, no reference whose scope field is id
\* ever resolves again.
C2_PoppedScopeNeverResolves ==
  \A ref \in AllRefs : ref.scope \in popped => ~Resolves(ref)

\* C3: resolve of any reference at all reads no slot outside the table and
\* returns either the value stored by the addValue call that returned exactly
\* that (scope, index) pair, its slot still live, or undefined.
C3_ResolveIsSafe ==
  \A ref \in AllRefs :
    LET g == getValue(ref) IN
      /\ g.outcome \in {"value", "obsolete"}
      /\ g.outcome = "obsolete" => (g.val = Undefined /\ g.slot = NoArg)
      /\ g.outcome = "value" =>
           /\ g.slot = ref.index
           /\ g.slot \in 0 .. (Len(values) - 1)
           /\ \E r \in issued : r.ref = ref /\ r.val = g.val

\* resolve was called with an index at or beyond the end of a non-empty table.
C3_Witness ==
  /\ last.op = "getValue"
  /\ values # <<>>
  /\ last.arg.index >= Len(values)
  /\ last.ret.outcome = "obsolete"

\* C4: popScope(id) with id other than the innermost open scope's id returns
\* false and changes neither the table nor any resolve result.
C4_WrongIdPopChangesNothing ==
  [][(IsPop(last') /\ last'.arg # InnermostOpen)
       => (last'.ret = FALSE /\ UNCHANGED tbl /\ ResolveUnchanged)]_vars

\* A pop with a wrong id was refused while a scope was open and slots existed.
C4_Witness ==
  /\ IsPop(last)
  /\ last.ret = FALSE
  /\ last.arg # InnermostOpen
  /\ frames # <<>>
  /\ values # <<>>

\* C5: popScope with an empty checkpoint stack returns false and changes
\* nothing, also when the id is the root scope id.
C5_PopOnEmptyStackChangesNothing ==
  [][(IsPop(last') /\ savedScopes = <<>>) => (last'.ret = FALSE /\ UNCHANGED tbl)]_vars

\* The root scope id was passed to popScope with no scope open.
C5_Witness ==
  /\ IsPop(last)
  /\ last.arg = RootScope
  /\ last.arg = curScope
  /\ last.ret = FALSE
  /\ savedScopes = <<>>
  /\ values # <<>>

\* C6: every pushScope returns an id greater than the root scope id and than
\* every id an earlier pushScope returned.
C6_ScopeIdsIncrease ==
  [][last'.op = "pushValueScope"
       => (last'.ret > RootScope /\ \A i \in pushedIds : last'.ret > i)]_vars

\* C7: once popScope(id) has returned true, every later popScope(id) returns
\* false and changes nothing.
C7_DoublePopFails ==
  [][(IsPop(last') /\ last'.arg \in popped) => (last'.ret = FALSE /\ UNCHANGED tbl)]_vars

\* C8: popping the scopes in LIFO order, each with the id its push returned,
\* succeeds every time and restores the slots and the current scope the table
\* had before the matching push; so N pops undo N pushes.
C8_LifoPopRestores ==
  [][(IsPop(last') /\ frames # <<>> /\ last'.arg = frames[Len(frames)].id)
       => /\ last'.ret = TRUE
          /\ values' = frames[Len(frames)].vals
          /\ curScope' = frames[Len(frames)].scope
          /\ Len(savedScopes') = Len(frames) - 1]_vars

\* Two nested scopes were popped innermost first, back to a non-empty table.
C8_Witness ==
  /\ IsPop(last)
  /\ last.ret = TRUE
  /\ frames = <<>>
  /\ values # <<>>
  /\ \E p \in popped : p > last.arg

\* C9: resolve of a reference returned by addValue(v) returns v, read from the
\* reference's own slot, for as long as the scope current at the addValue call
\* has not been popped.
C9_RoundTrip ==
  \A r \in issued :
    getValue(r.ref) = [outcome |-> "value", val |-> r.val, slot |-> r.ref.index]

\* A held reference was resolved to "A" while another live slot holds a
\* different value.
C9_Witness ==
  /\ last.op = "getValue"
  /\ last.ret.outcome = "value"
  /\ last.ret.val = "A"
  /\ \E r \in issued : r.ref = last.arg /\ r.val = "A"
  /\ \E r \in issued : r.val # "A"

Max(S) == CHOOSE m \in S : \A k \in S : k <= m

\* The checkpoints whose saved length is <= index.
Qualifying(index) == {k \in 1 .. Len(savedScopes) : savedScopes[k].index <= index}

\* The recorded scope as the specification words it: the scope saved in the
\* innermost qualifying checkpoint.
SavedScopeOfInnermost(index) ==
  IF Qualifying(index) = {} THEN RootScope
  ELSE savedScopes[Max(Qualifying(index))].scope

\* The scope that became current when the innermost qualifying checkpoint was
\* pushed: the scope saved by the checkpoint above it, or the current scope.
ScopeOpenedByInnermost(index) ==
  IF Qualifying(index) = {} THEN RootScope
  ELSE IF Max(Qualifying(index)) = Len(savedScopes) THEN curScope
  ELSE savedScopes[Max(Qualifying(index)) + 1].scope

\* C10 as stated: resolve succeeds exactly when the index is in bounds and the
\* reference's scope is the scope saved in the innermost checkpoint whose saved
\* length is <= the index (the root scope if there is none).
C10_Original ==
  \A ref \in AllRefs :
    Resolves(ref) <=>
      (ref.index < Len(values) /\ ref.scope = SavedScopeOfInnermost(ref.index))

\* C10 amended: resolve succeeds exactly when the index is in bounds and the
\* reference's scope is the scope opened by the push that saved the innermost
\* checkpoint whose saved length is <= the index (the root scope if there is
\* none).
C10_Amended ==
  \A ref \in AllRefs :
    Resolves(ref) <=>
      (ref.index < Len(values) /\ ref.scope = ScopeOpenedByInnermost(ref.index))

\* With two scopes open, a reference of the middle scope was resolved: the walk
\* passed the top checkpoint and stopped at the one below.
C10_Witness ==
  /\ last.op = "getValue"
  /\ last.ret.outcome = "value"
  /\ Len(savedScopes) = 2
  /\ last.arg.scope # curScope
  /\ last.arg.scope # RootScope
  /\ last.arg.scope = savedScopes[2].scope

(***************************************************************************)
(* The scenario on a fresh Context: addValue(A), pushScope, addValue(B),   *)
(* resolve, popScope(2).  The states of the scenario are recognised by     *)
(* their table: latestScope = RootScope only before the first push.        *)
(***************************************************************************)
Ref(scope, index) == [scope |-> scope, index |-> index]

ResolvesAfter(ref) ==
  getValueIn(values', savedScopes', curScope', ref).outcome = "value"

\* fresh Context: empty table, current scope 1
Fresh == tbl = <<(<<>>), (<<>>), RootScope, RootScope>>
\* after addValue(A) on a fresh Context
AfterA == /\ Len(values) = 1 /\ savedScopes = <<>>
          /\ curScope = RootScope /\ latestScope = RootScope
\* after addValue(A), pushScope
AfterAPush == /\ Len(values) = 1 /\ savedScopes = <<Ref(RootScope, 1)>>
              /\ curScope = 2 /\ latestScope = 2
\* after addValue(A), pushScope, addValue(B)
AfterAPushB == /\ Len(values) = 2 /\ savedScopes = <<Ref(RootScope, 1)>>
               /\ curScope = 2 /\ latestScope = 2

IsAdd == last'.op = "addValue" /\ Len(values') = Len(values) + 1
IsPush == last'.op = "pushValueScope" /\ Len(savedScopes') = Len(savedScopes) + 1
IsPopOf(scopeID) == last'.op = "popValueScope" /\ last'.arg = scopeID /\ last' # last

C11_Scenario(refB) ==
  /\ Fresh /\ IsAdd => last'.ret = Ref(1, 0)
  /\ AfterA /\ IsPush => last'.ret = 2
  /\ AfterAPush /\ IsAdd => last'.ret = refB
  /\ AfterAPushB => Resolves(Ref(1, 0))
  /\ AfterAPushB /\ IsPopOf(2) =>
       /\ last'.ret = TRUE
       /\ ~ResolvesAfter(refB)
       /\ ResolvesAfter(Ref(1, 0))

\* C11 as stated: on a fresh Context addValue(A) returns {1,0}, pushScope
\* returns 2, addValue(B) returns {2,0}, resolve({1,0}) succeeds, popScope(2)
\* returns true, and afterwards {2,0} is obsolete and {1,0} still resolves.
C11_Original == [][C11_Scenario(Ref(2, 0))]_vars

\* C11 amended: the same scenario, where addValue(B) returns {2,1} (the index
\* is the table length before the call, which is 1), and after popScope(2)
\* resolve({2,1}) fails as obsolete and resolve({1,0}) still succeeds.
C11_Amended == [][C11_Scenario(Ref(2, 1))]_vars

\* addValue(A), pushScope, addValue(B) and resolve({1,0}) have been done.
C11_Witness ==
  /\ AfterAPushB
  /\ {r.ref : r \in issued} = {Ref(1, 0), Ref(2, 1)}
  /\ last.op = "getValue" /\ last.arg = Ref(1, 0) /\ last.ret.outcome = "value"

(***************************************************************************)
(* The scenario on a fresh Context: pushScope, pushScope, popScope(2),     *)
(* popScope(3), popScope(2).                                               *)
(***************************************************************************)
\* after pushScope on a fresh Context
AfterPush == tbl = <<(<<>>), <<Ref(RootScope, 0)>>, 2, 2>>
\* after two pushScope calls in a row on a fresh Context
AfterPushPush == tbl = <<(<<>>), <<Ref(RootScope, 0), Ref(2, 0)>>, 3, 3>>
\* after two pushScope calls and popScope(3)
AfterPushPushPop == tbl = <<(<<>>), <<Ref(RootScope, 0)>>, 2, 3>>

\* C12: on a fresh Context two pushScope calls return 2 then 3; popScope(2)
\* then returns false, leaving the current scope 3 and the table untouched;
\* popScope(3) returns true; the following popScope(2) returns true.
C12_PushPushPopScenario ==
  [][/\ Fresh /\ IsPush => last'.ret = 2
     /\ AfterPush /\ IsPush => last'.ret = 3
     /\ AfterPushPush /\ IsPopOf(2) =>
          /\ last'.ret = FALSE
          /\ curScope' = 3
          /\ values' = values
          /\ savedScopes' = savedScopes
     /\ AfterPushPush /\ IsPopOf(3) => last'.ret = TRUE /\ AfterPushPushPop'
     /\ AfterPushPushPop /\ IsPopOf(2) => last'.ret = TRUE /\ curScope' = RootScope
    ]_vars

\* Scopes 2 and 3 were pushed and both popped, 2 last.
C12_Witness ==
  /\ last = Call("popValueScope", 2, TRUE)
  /\ pushedIds = {2, 3}
  /\ popped = {2, 3}
  /\ tbl = <<(<<>>), (<<>>), RootScope, 3>>

C16_TerminateKeepsTables ==
  [][/\ last'.op = "IsolateTerminateExecution" =>
          /\ UNCHANGED tbl
          /\ ResolveUnchanged
     /\ curScope' # curScope => last'.op \in {"pushValueScope", "popValueScope"}
    ]_vars

\* Execution was terminated while a scope was open and a value was live in it.
C16_Witness ==
  /\ last.op = "IsolateTerminateExecution"
  /\ savedScopes # <<>>
  /\ \E r \in issued : r.depth > 0 /\ Resolves(r.ref)

\* C19: addValue returns {current scope, table length before the call},
\* appends exactly one slot holding the given value, and leaves the earlier
\* slots, the checkpoint stack, the current scope and the latest scope
\* unchanged; its result is always a reference.
C19_AddValueFrame ==
  [][last'.op = "addValue" =>
       /\ last'.ret = Ref(curScope, Len(values))
       /\ Len(values') = Len(values) + 1
       /\ values'[Len(values')] = last'.arg
       /\ SubSeq(values', 1, Len(values)) = values
       /\ UNCHANGED <<savedScopes, curScope, latestScope>>
    ]_vars

\* A value was added inside a scope that is not the latest one pushed.
C19_Witness ==
  /\ last.op = "addValue"
  /\ last.ret = Ref(curScope, 1)
  /\ Len(values) = 2
  /\ savedScopes # <<>>
  /\ curScope # latestScope

\* C20: pushValueScope pushes (current scope, table length) onto the
\* checkpoint stack, increments the latest scope by one (in the counter's
\* arithmetic), makes it the current scope and returns it; the slots are
\* unchanged and every reference that resolved before resolves to the same
\* value after.
C20_PushScopeFrame ==
  [][last'.op = "pushValueScope" =>
       /\ savedScopes' = Append(savedScopes, Ref(curScope, Len(values)))
       /\ latestScope' = (latestScope + 1) % ScopeModulus
       /\ curScope' = latestScope'
       /\ last'.ret = curScope'
       /\ values' = values
       /\ \A ref \in AllRefs :
            Resolves(ref) =>
              getValueIn(values', savedScopes', curScope', ref) = getValue(ref)
    ]_vars

\* A scope was pushed while values of two different scopes were live.
C20_Witness ==
  /\ last.op = "pushValueScope"
  /\ Len(savedScopes) = 2
  /\ Len(values) = 2
  /\ Cardinality({r.ref.scope : r \in issued}) = 2

(***************************************************************************)
(* Destruction, locking, environment lookup and the obsolete-reference     *)
(* policy.                                                                 *)
(***************************************************************************)
\* C14: destroying a Context twice (ContextFree twice, or ContextFree of an
\* isolate's internal Context and IsolateDispose of the isolate, in either
\* order) never frees or touches the destroyed Context again: no delete is
\* applied to a Context that is already freed.
C14_DoubleDestroyIsNoFault == fault = "none"

\* C15: a thread reads or writes a Context's table only while it holds the
\* Locker of that Context's isolate, and no two threads are inside the table
\* of the same Context at once.
C15_TableAccessedUnderOwnLocker ==
  /\ \A t \in Threads :
       thread[t].accessing # NullPtr =>
         lockOwner[IsolateOf(thread[t].accessing)] = {t}
  /\ \A t1 \in Threads, t2 \in Threads :
       t1 # t2 /\ thread[t1].accessing # NullPtr =>
         thread[t1].accessing # thread[t2].accessing

\* Two threads are inside the table of the same Context at once.
ConcurrentTableAccess ==
  \E t1 \in Threads, t2 \in Threads :
    /\ t1 # t2
    /\ thread[t1].accessing # NullPtr
    /\ thread[t1].accessing = thread[t2].accessing

\* C17: the lookup from the environment of a live Context returns that
\* Context, and a callback reports to the host the Context of the environment
\* it runs in together with the host identifier NewContext was given for it.
C17_EnvironmentMapsToOwnContext ==
  /\ \A c \in CtxIds : contexts[c].state = "live" => fromContext(c) = c
  /\ \A r \in reported :
       /\ r.ctx = r.env
       /\ r.goRef = embedderData[r.env].slot1

\* C18: both getValue implementations answer an out-of-bounds index or a
\* scope mismatch by returning the undefined value, and none of them aborts
\* the process.
C18_ObsoleteReturnsUndefined ==
  /\ ~aborted
  /\ last.op = "getValue" /\ last.ret.outcome # "value" => last.ret.val = Undefined
  /\ m_last.op = "getValue" /\ m_last.ret.outcome # "value" => m_last.ret.val = Undefined

(***************************************************************************)
(* Effect of popValueScope on the table, and how the table length moves.   *)
(***************************************************************************)
\* C21: a successful popValueScope removes exactly the top checkpoint, makes
\* its saved scope the current scope and truncates the table to its saved
\* length; the latest scope does not decrease, every slot below the saved
\* length keeps its value, and every reference to such a slot that resolved
\* before the pop resolves to the same value after it.
C21_PopScopeEffect ==
  [][last'.op = "popValueScope" /\ last'.ret = TRUE =>
       /\ savedScopes # <<>>
       /\ LET top == savedScopes[Len(savedScopes)] IN
          /\ savedScopes' = SubSeq(savedScopes, 1, Len(savedScopes) - 1)
          /\ curScope' = top.scope
          /\ top.index <= Len(values)
          /\ values' = SubSeq(values, 1, top.index)
          /\ latestScope' >= latestScope
          /\ \A ref \in AllRefs :
               ref.index < top.index /\ Resolves(ref) =>
                 getValueIn(values', savedScopes', curScope', ref) = getValue(ref)
    ]_vars

\* An inner scope was popped while an outer pushed scope stays open with a
\* live value of its own.
C21_Witness ==
  /\ last.op = "popValueScope"
  /\ last.ret = TRUE
  /\ Len(savedScopes) = 1
  /\ Len(values) >= 1
  /\ \E r \in issued : r.depth = 1 /\ Resolves(r.ref)

\* C22: in every step the table grows by one slot (addValue), or stays as it
\* is, or is cut back to the saved length of the top checkpoint (successful
\* popValueScope); the slots that remain keep their values.
C22_SlotsRemovedOnlyByPop ==
  [][\/ /\ last'.op = "addValue"
        /\ Len(values') = Len(values) + 1
        /\ SubSeq(values', 1, Len(values)) = values
     \/ values' = values
     \/ /\ last'.op = "popValueScope"
        /\ last'.ret = TRUE
        /\ savedScopes # <<>>
        /\ savedScopes[Len(savedScopes)].index < Len(values)
        /\ values' = SubSeq(values, 1, savedScopes[Len(savedScopes)].index)
    ]_vars

\* A popValueScope that failed while the table held slots of an open scope.
C22_Witness ==
  /\ last.op = "popValueScope"
  /\ last.ret = FALSE
  /\ savedScopes # <<>>
  /\ Len(values) = MaxValues
  /\ Len(values) > savedScopes[Len(savedScopes)].index

(***************************************************************************)
(* Ranges of the scope ids.                                                *)
(***************************************************************************)
\* C24: in every reachable state 1 <= current scope <= latest scope; the
\* current scope is greater than every scope saved in the checkpoint stack;
\* the saved lengths are non-decreasing from bottom to top and none exceeds
\* the table length; the checkpoint stack is empty exactly when the current
\* scope is the root scope.
C24_ScopeOrderInvariant ==
  /\ 1 <= curScope
  /\ curScope <= latestScope
  /\ \A k \in 1 .. Len(savedScopes) : curScope > savedScopes[k].scope
  /\ \A k \in 1 .. (Len(savedScopes) - 1) :
       savedScopes[k].index <= savedScopes[k + 1].index
  /\ \A k \in 1 .. Len(savedScopes) : savedScopes[k].index <= Len(values)
  /\ (savedScopes = <<>>) <=> (curScope = RootScope)

\* C28: scope 0 is never the current scope nor a saved scope, so the zeroed
\* reference {0,0} of the shims' error paths never resolves.
C28_ZeroRefNeverResolves ==
  /\ curScope # 0
  /\ \A k \in 1 .. Len(savedScopes) : savedScopes[k].scope # 0
  /\ ~Resolves(Ref(0, 0))

\* C29: with the counter incremented mod 2^w, the id pushValueScope returns
\* differs from the root scope id and from the id of every scope open at
\* that moment, however many scopes were pushed before.
C29_PushedIdIsFresh ==
  last.op = "pushValueScope" =>
    /\ last.ret # RootScope
    /\ \A k \in 1 .. (Len(frames) - 1) : frames[k].id # last.ret

(***************************************************************************)
(* The two table designs side by side.                                     *)
(***************************************************************************)
\* C23: given the same addValue / pushScope / popScope calls, V8GoContext's
\* checkpoint walk accepts a reference exactly when m_ctx's per-slot tag
\* check accepts it: for every live index the scope the backward scan
\* computes is the scope that was current when the slot was inserted.
C23_SameValidity ==
  /\ Len(m_values) = Len(values)
  /\ \A ref \in AllRefs : Resolves(ref) <=> m_accepts(ref)
  /\ \A i \in 0 .. (Len(values) - 1) :
       scanScopes(savedScopes, Len(savedScopes), i, curScope) = m_values[i + 1].ref.scope

\* Both tables resolved a reference of a pushed scope that is not the latest
\* scope handed out.
C23_Witness ==
  /\ ~aborted
  /\ last.op = "getValue" /\ last.ret.outcome = "value"
  /\ m_last.op = "getValue" /\ m_last.ret.outcome = "value"
  /\ m_last.arg.scope = curScope
  /\ savedScopes # <<>>
  /\ curScope # latestScope

(***************************************************************************)
(* References of the root scope.                                           *)
(***************************************************************************)
\* C25: the references NewIsolate returns for undefined, null, false and
\* true are {1,0}, {1,1}, {1,2}, {1,3}; they, and every other reference
\* created in the root scope, resolve to their values in every state until
\* the isolate is disposed, whatever was pushed, popped or added.
C25_RootScopeRefsStayValid ==
  /\ last.op = "NewIsolate" =>
       last.ret = <<Ref(1, 0), Ref(1, 1), Ref(1, 2), Ref(1, 3)>>
  /\ InternalLive =>
       /\ \A i \in 1 .. Len(BootValues) :
            getValue(Ref(RootScope, i - 1)) =
              [outcome |-> "value", val |-> BootValues[i], slot |-> i - 1]
       /\ \A r \in issued :
            r.depth = 0 =>
              /\ r.ref.scope = RootScope
              /\ Resolves(r.ref)
              /\ getValue(r.ref).val = r.val

\* A scope was pushed, filled and popped on the internal Context, and a
\* further root-scope value added, before true was resolved.
C25_Witness ==
  /\ InternalLive
  /\ popped # {}
  /\ Len(values) > Len(BootValues)
  /\ last.op = "getValue"
  /\ last.arg = Ref(RootScope, 3)
  /\ last.ret.val = "true"

(***************************************************************************)
(* Object shims and the callback.                                          *)
(***************************************************************************)
\* C27: when the receiver of an object shim is an obsolete reference, the
\* shim applies no object-typed engine operation to the undefined value
\* that getValue substituted.
C27_ObsoleteReceiverNotUsedAsObject ==
  last.op = "ObjectSet" /\ last.ret.obsolete => last.ret.applied = NoArg

C26_ContextsAreIndependent ==
  [][/\ \A ctx \in ContextPtrs : ctx # last'.arg.ctx => tables'[ctx] = tables[ctx]
     /\ last'.op = "getValue" =>
          /\ tables' = tables
          /\ last'.ret = getValueIn(tables[last'.arg.ctx].values,
                                    tables[last'.arg.ctx].savedScopes,
                                    tables[last'.arg.ctx].curScope, last'.arg.ref)
     /\ last'.op = "FunctionCall" /\ ~last'.ret.error =>
               LET t == tables'[last'.arg.ctx] IN
               /\ Len(t.values) = Len(tables[last'.arg.ctx].values) + 1
               /\ getValueOn(t, last'.ret.value).outcome = "value"
               /\ getValueOn(t, last'.ret.value).slot = Len(t.values) - 1
     /\ last'.op = "addValue" =>
          LET t == tables'[last'.arg.ctx] IN
          /\ Len(t.values) = Len(tables[last'.arg.ctx].values) + 1
          /\ getValueOn(t, last'.ret).slot = Len(t.values) - 1
    ]_vars

\* A function of ctx2 was called with a receiver of ctx1 while ctx1 had a
\* scope open and a value in its table, and returned a value.
C26_Witness ==
  /\ last.op = "FunctionCall"
  /\ ~last.ret.error
  /\ last.arg.ctx = "ctx2"
  /\ last.arg.recv = "ctx1"
  /\ tables["ctx1"].savedScopes # <<>>
  /\ tables["ctx1"].values # <<>>

(***************************************************************************)
(* Shims whose engine operation fails.                                     *)
(***************************************************************************)
\* C31: the step in which RunScript, JSONParse or returnValue returns an
\* error leaves the slots, the checkpoints and both scope counters as they
\* are and returns the zero reference; and when no callback was entered
\* since the shim was entered, the table is the one of shim entry.
C31_FailedShimLeavesTable ==
  [][last'.op \in {"RunScript", "JSONParse", "returnValue"} /\ last'.ret.error =>
       /\ tbl' = tbl
       /\ last'.ret.value = [scope |-> 0, index |-> 0]
       /\ \A r \in running :
            running' = {} /\ ~r.reentered => table' = r.entry
    ]_vars

\* A script that called back into the host, which added values inside a
\* scope it pushed, has thrown.
C31_Witness ==
  /\ last.op = "RunScript"
  /\ last.ret.error
  /\ last.arg.stage = "run"
  /\ last.arg.reentered
  /\ savedScopes # <<>>
  /\ Len(values) >= 2

(***************************************************************************)
(* Unbound scripts.                                                        *)
(***************************************************************************)
\* C32: addValue, pushValueScope and popValueScope leave the store of
\* unbound scripts as it is; while the Context lives the store only grows
\* at its end, no element moving; and every pointer newUnboundScript has
\* returned still addresses the element holding its script.
C32_UnboundScriptsOutsideScopes ==
  /\ [][/\ last'.op \in {"addValue", "pushValueScope", "popValueScope"} =>
             unboundScripts' = unboundScripts
        /\ InternalLive' =>
             /\ Len(unboundScripts') >= Len(unboundScripts)
             /\ SubSeq(unboundScripts', 1, Len(unboundScripts)) = unboundScripts
       ]_vars
  /\ [](InternalLive =>
          \A p \in scriptPtrs :
            \E i \in 1 .. Len(unboundScripts) :
              unboundScripts[i] = [addr |-> p.ptr, script |-> p.script])

\* The script compiled first was run after a second one was compiled and
\* after a scope holding a value was pushed and popped.
C32_Witness ==
  /\ InternalLive
  /\ Len(unboundScripts) = 2
  /\ popped # {}
  /\ last.op = "UnboundScriptRun"
  /\ last.arg = unboundScripts[1].addr
  /\ last.ret.script = {unboundScripts[1].script}
  /\ unboundScripts[1].script # unboundScripts[2].script

====
